---- MODULE Spec2Model ----
(***************************************************************************)
(* Order lifecycle, inventory and cart-to-order consistency of the         *)
(* e-commerce API: models/Product.js, models/Cart.js, models/Order.js,     *)
(* routes/cart.js, routes/checkout.js, routes/orders.js and the stock      *)
(* part of routes/admin/products.js.                                       *)
(*                                                                         *)
(* Money is counted in cents so that the tax rates 0.1 and 0.0825 stay in  *)
(* the integers.                                                           *)
(***************************************************************************)
EXTENDS Integers, Sequences, FiniteSets, TLC

(***************************************************************************)
(* Bounds of the model.                                                    *)
(***************************************************************************)
MaxQty == 2          \* largest quantity a request asks for
MaxOrders == 1       \* orders persisted in one run
MaxHist == 6         \* longest status history
MaxStock == 3        \* largest totalStock an admin edit sets
MaxItems == 2        \* most lines in one order request
MaxCheckouts == 1    \* interleaved checkouts one user completes

InitStock == 3       \* largest totalStock of a seeded product

Products == {"p1", "p2"}
Users == {"u1", "u2"}
Admin == "admin"
Actors == Users \cup {Admin}
Colours == {"black", "white"}
Sizes == {"sm", "md"}

\* catalogue data that no modelled operation changes
colourOf(p) == IF p = "p1" THEN "black" ELSE "white"
sizeOf(p) == IF p = "p1" THEN "sm" ELSE "md"
priceOf(p) == IF p = "p1" THEN 6000 ELSE 4000

\* the seeded stock: p1 is plentiful, p2 is scarce
InitStockOf(p) == IF p = "p1" THEN InitStock ELSE InitStock - 2

Statuses == {"pending", "confirmed", "processing", "shipped", "delivered",
             "cancelled", "refunded", "returned"}

VARIABLES
  products,   \* Product collection: id -> document
  carts,      \* Cart collection: user -> document
  orders,     \* Order collection, in order of creation
  resp,       \* the response of the last request
  pc,         \* concurrent requests: position of each user's request
  loc         \* concurrent requests: the request's local variables

vars == <<products, carts, orders, resp, pc, loc>>

(***************************************************************************)
(* models/Product.js                                                       *)
(***************************************************************************)
\* virtual availableStock
availableStock(prod) == prod.totalStock - prod.soldCount

\* the schema's min validators, run by save()
ProductValid(prod) == prod.totalStock >= 0 /\ prod.soldCount >= 0

\* pre('save'): inStock is recomputed
ProductPreSave(prod) == [prod EXCEPT !.inStock = availableStock(prod) > 0]

\* methods.updateSoldCount, as applied to a loaded document
updateSoldCount(prod, quantity) ==
  ProductPreSave([prod EXCEPT !.soldCount = prod.soldCount + quantity])

(***************************************************************************)
(* models/Cart.js                                                          *)
(***************************************************************************)
RECURSIVE SumQuantity(_)
SumQuantity(items) ==
  IF items = <<>> THEN 0
  ELSE Head(items).quantity + SumQuantity(Tail(items))

RECURSIVE SumAmount(_)
SumAmount(items) ==
  IF items = <<>> THEN 0
  ELSE Head(items).price * Head(items).quantity + SumAmount(Tail(items))

\* a save hook that recomputes the number of items and keeps the old amount
CartPreSaveStale(cart) ==
  [cart EXCEPT !.totalItems = SumQuantity(cart.items)]

\* pre('save'): the aggregates are recomputed from the items
CartPreSave(cart) ==
  [cart EXCEPT !.totalItems = SumQuantity(cart.items),
               !.totalAmount = SumAmount(cart.items)]

\* items.pull({_id: itemId}): the item at position i is dropped
Pull(items, i) ==
  [j \in 1..(Len(items) - 1) |-> IF j < i THEN items[j] ELSE items[j + 1]]

\* an updateItemQuantity that stores the quantity and never pulls the line
updateItemQuantityKeep(cart, i, quantity) ==
  CartPreSave(
    IF i \in 1..Len(cart.items)
    THEN [cart EXCEPT !.items[i].quantity = quantity]
    ELSE cart)

\* methods.updateItemQuantity
updateItemQuantity(cart, i, quantity) ==
  CartPreSave(
    IF i \in 1..Len(cart.items)
    THEN IF quantity <= 0
         THEN [cart EXCEPT !.items = Pull(cart.items, i)]
         ELSE [cart EXCEPT !.items[i].quantity = quantity]
    ELSE cart)

\* methods.removeItem
removeItem(cart, i) ==
  CartPreSave(IF i \in 1..Len(cart.items)
              THEN [cart EXCEPT !.items = Pull(cart.items, i)]
              ELSE cart)

\* methods.clearCart
clearCart(cart) == CartPreSave([cart EXCEPT !.items = <<>>])

\* a cart that was never saved: Cart.findOne yields null
NoCart == [exists |-> FALSE, items |-> <<>>, totalItems |-> 0, totalAmount |-> 0]

\* the JSON answer of a request: the route, the HTTP status, the error field
\* and, for a stock conflict, the positions of the lines listed in details
Response(op, code, err) ==
  [op |-> op, code |-> code, err |-> err, details |-> {}]

(***************************************************************************)
(* routes/cart.js                                                          *)
(***************************************************************************)
\* findIndex over the cart's items for product + colour + size; 0 when none
RECURSIVE FindIndexFrom(_, _, _, _, _)
FindIndexFrom(items, i, p, colour, size) ==
  IF i > Len(items) THEN 0
  ELSE IF /\ items[i].product = p
          /\ items[i].colour = colour
          /\ items[i].size = size
       THEN i
       ELSE FindIndexFrom(items, i + 1, p, colour, size)

existingItemIndex(items, p, colour, size) == FindIndexFrom(items, 1, p, colour, size)

\* a cart that pushes a new line on every add
AddedItemsPush(items, p, quantity, colour, size) ==
  Append(items, [product |-> p, quantity |-> quantity, colour |-> colour,
                 size |-> size, price |-> priceOf(p)])

\* the cart after a successful add: merge into the existing line, or push
AddedItems(items, p, quantity, colour, size) ==
  LET idx == existingItemIndex(items, p, colour, size) IN
  IF idx > 0
  THEN [items EXCEPT ![idx].quantity = items[idx].quantity + quantity]
  ELSE Append(items, [product |-> p, quantity |-> quantity, colour |-> colour,
                      size |-> size, price |-> priceOf(p)])

\* an add route that tests the requested quantity alone, not the merged one
AddToCartNoMergeCheck(u, p, quantity, colour, size) ==
  LET prod == products[p]
      cart == carts[u]
  IN
  /\ UNCHANGED <<products, orders, pc, loc>>
  /\ IF ~prod.exists \/ ~prod.isActive
     THEN /\ resp' = Response("add", 404, "Product Not Found")
          /\ UNCHANGED carts
     ELSE IF colourOf(p) # colour \/ sizeOf(p) # size
     THEN /\ resp' = Response("add", 400, "Variant Not Available")
          /\ UNCHANGED carts
     ELSE IF ~prod.inStock \/ availableStock(prod) < quantity
     THEN /\ resp' = Response("add", 400, "Insufficient Stock")
          /\ UNCHANGED carts
     ELSE /\ carts' = [carts EXCEPT ![u] =
                 CartPreSave([cart EXCEPT
                   !.exists = TRUE,
                   !.items = AddedItems(cart.items, p, quantity, colour, size)])]
          /\ resp' = Response("add", 200, "")

\* POST /api/cart/add
AddToCart(u, p, quantity, colour, size) ==
  LET prod == products[p]
      cart == carts[u]
      idx == existingItemIndex(cart.items, p, colour, size)
  IN
  /\ UNCHANGED <<products, orders, pc, loc>>
  /\ IF ~prod.exists \/ ~prod.isActive
     THEN /\ resp' = Response("add", 404, "Product Not Found")
          /\ UNCHANGED carts
     ELSE IF colourOf(p) # colour \/ sizeOf(p) # size
     THEN /\ resp' = Response("add", 400, "Variant Not Available")
          /\ UNCHANGED carts
     ELSE IF ~prod.inStock \/ availableStock(prod) < quantity
     THEN /\ resp' = Response("add", 400, "Insufficient Stock")
          /\ UNCHANGED carts
     ELSE IF idx > 0 /\ cart.items[idx].quantity + quantity > availableStock(prod)
     THEN /\ resp' = Response("add", 400, "Insufficient Stock")
          /\ UNCHANGED carts
     ELSE /\ carts' = [carts EXCEPT ![u] =
                 CartPreSave([cart EXCEPT
                   !.exists = TRUE,
                   !.items = AddedItems(cart.items, p, quantity, colour, size)])]
          /\ resp' = Response("add", 200, "")

\* PUT /api/cart/update/:itemId ; the item id is the item's position
UpdateCartItem(u, i, quantity) ==
  LET cart == carts[u] IN
  /\ UNCHANGED <<products, orders, pc, loc>>
  /\ IF ~cart.exists
     THEN /\ resp' = Response("update", 404, "Cart Not Found")
          /\ UNCHANGED carts
     ELSE IF i \notin 1..Len(cart.items)
     THEN /\ resp' = Response("update", 404, "Item Not Found")
          /\ UNCHANGED carts
     ELSE LET prod == products[cart.items[i].product] IN
          IF quantity > 0 /\ (\/ ~prod.exists
                              \/ ~prod.inStock
                              \/ availableStock(prod) < quantity)
          THEN /\ resp' = Response("update", 400, "Insufficient Stock")
               /\ UNCHANGED carts
          ELSE /\ carts' = [carts EXCEPT ![u] = updateItemQuantity(cart, i, quantity)]
               /\ resp' = Response("update", 200, "")

\* DELETE /api/cart/remove/:itemId
RemoveCartItem(u, i) ==
  LET cart == carts[u] IN
  /\ UNCHANGED <<products, orders, pc, loc>>
  /\ IF ~cart.exists
     THEN /\ resp' = Response("remove", 404, "Cart Not Found")
          /\ UNCHANGED carts
     ELSE /\ carts' = [carts EXCEPT ![u] = removeItem(cart, i)]
          /\ resp' = Response("remove", 200, "")

\* DELETE /api/cart/clear
ClearCart(u) ==
  LET cart == carts[u] IN
  /\ UNCHANGED <<products, orders, pc, loc>>
  /\ resp' = Response("clear", 200, "")
  /\ IF ~cart.exists
     THEN UNCHANGED carts
     ELSE carts' = [carts EXCEPT ![u] = clearCart(cart)]

(***************************************************************************)
(* routes/checkout.js                                                      *)
(***************************************************************************)
\* the stock test of one populated cart line
LineHasStockIssue(prods, item) ==
  \/ ~prods[item.product].inStock
  \/ availableStock(prods[item.product]) < item.quantity

\* the lines collected into stockIssues (by position)
stockIssues(prods, items) ==
  {i \in 1..Len(items) : LineHasStockIssue(prods, items[i])}

\* populate('items.product') yields null for a deleted product
PopulatedNull(prods, items) ==
  \E i \in 1..Len(items) : ~prods[items[i].product].exists

\* POST /api/checkout
Checkout(u) ==
  LET cart == carts[u] IN
  /\ UNCHANGED <<products, carts, orders, pc, loc>>
  /\ IF ~cart.exists \/ Len(cart.items) = 0
     THEN resp' = Response("checkout", 400, "Empty Cart")
     ELSE IF PopulatedNull(products, cart.items)
     THEN resp' = Response("checkout", 500, "Checkout Failed")
     ELSE IF stockIssues(products, cart.items) # {}
     THEN resp' = [Response("checkout", 400, "Stock Issues")
                     EXCEPT !.details = stockIssues(products, cart.items)]
     ELSE resp' = Response("checkout", 200, "")

\* the order summary's pricing of POST /api/checkout
SummaryTax(subtotal) == subtotal \div 10
SummaryShipping(subtotal) == IF subtotal >= 10000 THEN 0 ELSE 1000
SummaryTotal(subtotal) == subtotal + SummaryTax(subtotal) + SummaryShipping(subtotal)

\* the stock loop of POST /api/checkout/complete from item i on: every line's
\* product is re-read and its sold count raised; a line whose populated product
\* is null throws on item.product._id
RECURSIVE CompleteLoop(_, _, _)
CompleteLoop(prods, items, i) ==
  IF i > Len(items) THEN [prods |-> prods, thrown |-> FALSE]
  ELSE LET p == items[i].product IN
       IF ~prods[p].exists
       THEN [prods |-> prods, thrown |-> TRUE]
       ELSE CompleteLoop([prods EXCEPT ![p] = updateSoldCount(prods[p], items[i].quantity)],
                         items, i + 1)

\* POST /api/checkout/complete
CompleteCheckout(u) ==
  LET cart == carts[u]
      r == CompleteLoop(products, cart.items, 1)
  IN
  /\ UNCHANGED <<orders, pc, loc>>
  /\ IF ~cart.exists \/ Len(cart.items) = 0
     THEN /\ resp' = Response("complete", 400, "Empty Cart")
          /\ UNCHANGED <<products, carts>>
     ELSE IF r.thrown
     THEN /\ resp' = Response("complete", 500, "Checkout Completion Failed")
          /\ products' = r.prods
          /\ UNCHANGED carts
     ELSE /\ products' = r.prods
          /\ carts' = [carts EXCEPT ![u] = clearCart(cart)]
          /\ resp' = Response("complete", 200, "")

(***************************************************************************)
(* routes/admin/products.js                                                *)
(***************************************************************************)
\* PUT /api/admin/products/:id with a totalStock: findByIdAndUpdate $set runs
\* the validators but no save hook
AdminUpdateProduct(p, totalStock) ==
  /\ UNCHANGED <<carts, orders, pc, loc>>
  /\ IF ~products[p].exists
     THEN /\ resp' = Response("adminUpdate", 404, "Product Not Found")
          /\ UNCHANGED products
     ELSE /\ products' = [products EXCEPT ![p].totalStock = totalStock]
          /\ resp' = Response("adminUpdate", 200, "")

\* PUT /api/admin/products/:id/toggle-active
AdminToggleActive(p) ==
  /\ UNCHANGED <<carts, orders, pc, loc>>
  /\ IF ~products[p].exists
     THEN /\ resp' = Response("toggleActive", 404, "Product Not Found")
          /\ UNCHANGED products
     ELSE /\ products' = [products EXCEPT ![p] =
                 ProductPreSave([products[p] EXCEPT !.isActive = ~products[p].isActive])]
          /\ resp' = Response("toggleActive", 200, "")

\* DELETE /api/admin/products/:id
AdminDeleteProduct(p) ==
  /\ UNCHANGED <<carts, orders, pc, loc>>
  /\ IF ~products[p].exists
     THEN /\ resp' = Response("adminDelete", 404, "Product Not Found")
          /\ UNCHANGED products
     ELSE /\ products' = [products EXCEPT ![p].exists = FALSE]
          /\ resp' = Response("adminDelete", 200, "")

(***************************************************************************)
(* The inventory methods the order routes call on a Product document.      *)
(* models/Product.js defines none of them; they follow the Inventory       *)
(* Ledger of the specification (reserve, release, commit, restore), and    *)
(* the schema's min validators reject a negative counter.                  *)
(***************************************************************************)
availableQuantity(prod) == prod.totalStock - prod.soldCount

finalPrice(p) == priceOf(p)

\* reserve: fails when the product is inactive or short of stock
reserveThrows(prod, quantity) ==
  ~prod.isActive \/ availableQuantity(prod) < quantity

reserveInventory(prod, quantity) ==
  ProductPreSave([prod EXCEPT !.soldCount = prod.soldCount + quantity])

\* release: the reservation counter is decremented
releaseReservedInventory(prod, quantity) ==
  ProductPreSave([prod EXCEPT !.soldCount = prod.soldCount - quantity])

\* commit ('subtract') and restore ('add') act on totalStock
updateInventory(prod, quantity, operation) ==
  ProductPreSave([prod EXCEPT !.totalStock =
    IF operation = "add" THEN prod.totalStock + quantity
    ELSE prod.totalStock - quantity])

(***************************************************************************)
(* models/Order.js                                                         *)
(***************************************************************************)
\* virtual canBeCancelled
canBeCancelled(order) == order.status \in {"pending", "confirmed"}

\* an updateStatus that sets the status and records nothing
updateStatusNoHistory(order, newStatus) == [order EXCEPT !.status = newStatus]

\* methods.updateStatus: the status is set and one history entry is pushed
updateStatus(order, newStatus) ==
  [order EXCEPT !.status = newStatus,
                !.statusHistory = Append(order.statusHistory, [status |-> newStatus])]

\* methods.addTracking
addTracking(order) == [order EXCEPT !.tracking = TRUE]

\* methods.processRefund
processRefund(order, amount) ==
  [order EXCEPT !.refund = amount,
                !.status = "refunded",
                !.statusHistory = Append(order.statusHistory, [status |-> "refunded"])]

\* taxRate 0.0825 of the order route, in ten-thousandths
OrderTaxRate == 825

\* subtotal * taxRate, over cents
OrderTax(subtotal) == (subtotal * OrderTaxRate) \div 10000

Max(a, b) == IF a >= b THEN a ELSE b

\* the discount of calculateTotals: nothing, a percentage of the subtotal, or
\* the fixed amount
discountAmount(discount, subtotal) ==
  IF discount.amount > 0
  THEN IF discount.type = "percentage"
       THEN (subtotal * discount.amount) \div 100
       ELSE discount.amount
  ELSE 0

\* a calculateTotals that leaves the shipping cost out of the total
calculateTotalsNoShipping(order) ==
  LET subtotal == SumAmount(order.items)
      tax == (subtotal * order.taxRate) \div 10000
      total == Max(0, subtotal + tax - discountAmount(order.discount, subtotal))
  IN [order EXCEPT !.subtotal = subtotal,
                   !.tax = tax,
                   !.total = total,
                   !.paymentInfo.amount = IF order.paymentInfo.present THEN total ELSE @]

\* a calculateTotals that takes the discount off the stored total
calculateTotalsOffStored(order) ==
  LET subtotal == SumAmount(order.items)
      tax == (subtotal * order.taxRate) \div 10000
      total == Max(0, IF order.discount.amount > 0
                      THEN order.total - discountAmount(order.discount, subtotal)
                      ELSE subtotal + tax + order.shippingCost)
  IN [order EXCEPT !.subtotal = subtotal,
                   !.tax = tax,
                   !.total = total,
                   !.paymentInfo.amount = IF order.paymentInfo.present THEN total ELSE @]

\* methods.calculateTotals
calculateTotals(order) ==
  LET subtotal == SumAmount(order.items)
      tax == (subtotal * order.taxRate) \div 10000
      total == Max(0, subtotal + tax + order.shippingCost
                        - discountAmount(order.discount, subtotal))
  IN [order EXCEPT !.subtotal = subtotal,
                   !.tax = tax,
                   !.total = total,
                   !.paymentInfo.amount = IF order.paymentInfo.present THEN total ELSE @]

\* pre('save') of a new order: order number and the initial history entry
OrderPreSave(order, n) ==
  [order EXCEPT !.orderNumber = n,
                !.statusHistory = Append(order.statusHistory, [status |-> order.status])]

(***************************************************************************)
(* routes/orders.js                                                        *)
(***************************************************************************)
\* a table that lets a pending order be shipped
validTransitionsLoose(status) ==
  CASE status = "pending" -> {"confirmed", "cancelled", "shipped"}
    [] status = "confirmed" -> {"processing", "cancelled"}
    [] status = "processing" -> {"shipped", "cancelled"}
    [] status = "shipped" -> {"delivered", "returned"}
    [] status = "delivered" -> {"returned"}
    [] status = "cancelled" -> {}
    [] status = "refunded" -> {}
    [] status = "returned" -> {"refunded"}

\* a table in which a returned order can go nowhere
validTransitionsDeadEnd(status) ==
  CASE status = "pending" -> {"confirmed", "cancelled"}
    [] status = "confirmed" -> {"processing", "cancelled"}
    [] status = "processing" -> {"shipped", "cancelled"}
    [] status = "shipped" -> {"delivered", "returned"}
    [] status = "delivered" -> {"returned"}
    [] status = "cancelled" -> {}
    [] status = "refunded" -> {}
    [] status = "returned" -> {}

\* the transition table of PUT /api/orders/:id/status
validTransitions(status) ==
  CASE status = "pending" -> {"confirmed", "cancelled"}
    [] status = "confirmed" -> {"processing", "cancelled"}
    [] status = "processing" -> {"shipped", "cancelled"}
    [] status = "shipped" -> {"delivered", "returned"}
    [] status = "delivered" -> {"returned"}
    [] status = "cancelled" -> {}
    [] status = "refunded" -> {}
    [] status = "returned" -> {"refunded"}

\* a reserve loop without the stock test of the route
RECURSIVE ReserveLoopNoStockTest(_, _, _)
ReserveLoopNoStockTest(prods, items, i) ==
  IF i > Len(items) THEN [prods |-> prods, err |-> "", thrown |-> FALSE]
  ELSE LET p == items[i].product
           prod == prods[p]
       IN
       IF ~prod.exists
       THEN [prods |-> prods, err |-> "Product Not Found", thrown |-> FALSE]
       ELSE IF ~prod.isActive
       THEN [prods |-> prods, err |-> "Product Unavailable", thrown |-> FALSE]
       ELSE ReserveLoopNoStockTest(
              [prods EXCEPT ![p] = reserveInventory(prod, items[i].quantity)],
              items, i + 1)

\* the validation and reserve loop of POST /api/orders from item i on.
\* err is the error of an early return, thrown tells that reserveInventory threw
RECURSIVE ReserveLoop(_, _, _)
ReserveLoop(prods, items, i) ==
  IF i > Len(items) THEN [prods |-> prods, err |-> "", thrown |-> FALSE]
  ELSE LET p == items[i].product
           prod == prods[p]
       IN
       IF ~prod.exists
       THEN [prods |-> prods, err |-> "Product Not Found", thrown |-> FALSE]
       ELSE IF ~prod.isActive
       THEN [prods |-> prods, err |-> "Product Unavailable", thrown |-> FALSE]
       ELSE IF availableQuantity(prod) < items[i].quantity
       THEN [prods |-> prods, err |-> "Insufficient Stock", thrown |-> FALSE]
       ELSE IF reserveThrows(prod, items[i].quantity)
       THEN [prods |-> prods, err |-> "", thrown |-> TRUE]
       ELSE ReserveLoop([prods EXCEPT ![p] = reserveInventory(prod, items[i].quantity)],
                        items, i + 1)

\* the catch block of POST /api/orders: every line of the request is released,
\* a release that fails is logged and the loop goes on
RECURSIVE ReleaseAll(_, _, _)
ReleaseAll(prods, items, i) ==
  IF i > Len(items) THEN prods
  ELSE LET p == items[i].product
           released == releaseReservedInventory(prods[p], items[i].quantity)
       IN
       IF prods[p].exists /\ ProductValid(released)
       THEN ReleaseAll([prods EXCEPT ![p] = released], items, i + 1)
       ELSE ReleaseAll(prods, items, i + 1)

\* shipping cost of POST /api/orders
OrderShipping(deliveryOption, subtotal) ==
  IF deliveryOption = "express" THEN 1500
  ELSE IF deliveryOption = "overnight" THEN 2500
  ELSE IF subtotal < 5000 THEN 500
  ELSE 0

\* orderItems of a request whose every line passed
OrderItems(items) ==
  [i \in 1..Len(items) |->
     [product |-> items[i].product, quantity |-> items[i].quantity,
      price |-> finalPrice(items[i].product)]]

\* the total POST /api/orders computes itself
RouteTotal(items, deliveryOption) ==
  SumAmount(OrderItems(items)) + OrderTax(SumAmount(OrderItems(items)))
    + OrderShipping(deliveryOption, SumAmount(OrderItems(items)))

\* new Order(orderData) followed by calculateTotals(); the schema defaults give
\* a fixed discount of 0
NewOrder(u, items, deliveryOption) ==
  calculateTotals(
    [user |-> u, orderNumber |-> 0, items |-> OrderItems(items),
     subtotal |-> SumAmount(OrderItems(items)),
     tax |-> OrderTax(SumAmount(OrderItems(items))),
     taxRate |-> OrderTaxRate,
     shippingCost |-> OrderShipping(deliveryOption, SumAmount(OrderItems(items))),
     discount |-> [amount |-> 0, type |-> "fixed"],
     total |-> RouteTotal(items, deliveryOption),
     paymentInfo |-> [present |-> TRUE, amount |-> RouteTotal(items, deliveryOption)],
     status |-> "pending", statusHistory |-> <<>>,
     tracking |-> FALSE, refund |-> -1])

\* a collection without the unique index on orderNumber
DuplicateKeyNever(ords, n) == FALSE

\* the unique index on orderNumber: a save with a number that is taken fails
DuplicateKey(ords, n) == \E i \in 1..Len(ords) : ords[i].orderNumber = n

\* POST /api/orders ; saveOk tells whether order.save() succeeds (it throws on
\* a schema validation error or a duplicate order number), n is the generated
\* order number
CreateOrder(u, items, deliveryOption, saveOk, n) ==
  LET r == ReserveLoop(products, items, 1) IN
  /\ UNCHANGED <<carts, pc, loc>>
  /\ IF r.err # ""
     THEN /\ resp' = Response("createOrder", 400, r.err)
          /\ products' = r.prods
          /\ UNCHANGED orders
     ELSE IF r.thrown \/ ~saveOk \/ DuplicateKey(orders, n)
     THEN /\ resp' = Response("createOrder", 500, "Order Creation Failed")
          /\ products' = ReleaseAll(r.prods, items, 1)
          /\ UNCHANGED orders
     ELSE /\ resp' = Response("createOrder", 201, "")
          /\ products' = r.prods
          /\ orders' = Append(orders, OrderPreSave(NewOrder(u, items, deliveryOption), n))

\* an inventory loop that releases the reservation and leaves totalStock alone
RECURSIVE InventoryLoopReleaseOnly(_, _, _, _)
InventoryLoopReleaseOnly(prods, items, i, operation) ==
  IF i > Len(items) THEN [prods |-> prods, thrown |-> FALSE]
  ELSE LET p == items[i].product
           released == releaseReservedInventory(prods[p], items[i].quantity)
       IN
       IF ~prods[p].exists
       THEN InventoryLoopReleaseOnly(prods, items, i + 1, operation)
       ELSE IF ~ProductValid(released)
       THEN [prods |-> prods, thrown |-> TRUE]
       ELSE InventoryLoopReleaseOnly([prods EXCEPT ![p] = released], items, i + 1,
                                     operation)

\* the inventory loop of a cancellation ('add') or a shipment ('subtract')
\* from item i on; a missing product is skipped, a failing update throws
RECURSIVE InventoryLoop(_, _, _, _)
InventoryLoop(prods, items, i, operation) ==
  IF i > Len(items) THEN [prods |-> prods, thrown |-> FALSE]
  ELSE LET p == items[i].product
           released == releaseReservedInventory(prods[p], items[i].quantity)
           updated == updateInventory(released, items[i].quantity, operation)
       IN
       IF ~prods[p].exists
       THEN InventoryLoop(prods, items, i + 1, operation)
       ELSE IF ~ProductValid(released)
       THEN [prods |-> prods, thrown |-> TRUE]
       ELSE IF ~ProductValid(updated)
       THEN [prods |-> [prods EXCEPT ![p] = released], thrown |-> TRUE]
       ELSE InventoryLoop([prods EXCEPT ![p] = updated], items, i + 1, operation)

\* PUT /api/orders/:id/status (admin or moderator)
UpdateOrderStatus(o, status) ==
  /\ UNCHANGED <<carts, pc, loc>>
  /\ IF o \notin 1..Len(orders)
     THEN /\ resp' = Response("status", 404, "Order Not Found")
          /\ UNCHANGED <<products, orders>>
     ELSE LET order == orders[o]
              operation == IF status = "cancelled" THEN "add" ELSE "subtract"
              touches == \/ status = "cancelled" /\
                              order.status \in {"pending", "confirmed", "processing"}
                         \/ status = "shipped" /\ order.status = "processing"
              r == IF touches THEN InventoryLoop(products, order.items, 1, operation)
                   ELSE [prods |-> products, thrown |-> FALSE]
          IN
          IF status \notin validTransitions(order.status)
          THEN /\ resp' = Response("status", 400, "Invalid Status Transition")
               /\ UNCHANGED <<products, orders>>
          ELSE IF r.thrown
          THEN /\ resp' = Response("status", 500, "Update Failed")
               /\ products' = r.prods
               /\ UNCHANGED orders
          ELSE /\ Len(order.statusHistory) < MaxHist
               /\ resp' = Response("status", 200, "")
               /\ products' = r.prods
               /\ orders' = [orders EXCEPT ![o] = updateStatus(order, status)]

\* PUT /api/orders/:id/tracking (admin or moderator)
UpdateOrderTracking(o) ==
  /\ UNCHANGED <<products, carts, pc, loc>>
  /\ IF o \notin 1..Len(orders)
     THEN /\ resp' = Response("tracking", 404, "Order Not Found")
          /\ UNCHANGED orders
     ELSE LET tracked == addTracking(orders[o]) IN
          /\ tracked.status = "processing" => Len(tracked.statusHistory) < MaxHist
          /\ resp' = Response("tracking", 200, "")
          /\ orders' = [orders EXCEPT ![o] =
                 IF tracked.status = "processing"
                 THEN updateStatus(tracked, "shipped")
                 ELSE tracked]

\* the query of the read, invoice and cancel routes: the order by id, and for
\* a requester whose role is not admin by owner as well
FindOrder(actor, o) ==
  o \in 1..Len(orders) /\ (actor = Admin \/ orders[o].user = actor)

\* GET /api/orders/:id
GetOrder(actor, o) ==
  /\ UNCHANGED <<products, carts, orders, pc, loc>>
  /\ resp' = IF FindOrder(actor, o)
             THEN Response("getOrder", 200, "")
             ELSE Response("getOrder", 404, "Order Not Found")

\* GET /api/orders/:id/invoice ; an order without payment record throws
GetInvoice(actor, o) ==
  /\ UNCHANGED <<products, carts, orders, pc, loc>>
  /\ resp' = IF ~FindOrder(actor, o)
             THEN Response("getInvoice", 404, "Order Not Found")
             ELSE IF ~orders[o].paymentInfo.present
             THEN Response("getInvoice", 500, "Server Error")
             ELSE Response("getInvoice", 200, "")

\* a cancel route that looks the order up by id alone
CancelOrderAnyone(actor, o) ==
  /\ UNCHANGED <<carts, pc, loc>>
  /\ IF o \notin 1..Len(orders)
     THEN /\ resp' = Response("cancel", 404, "Order Not Found")
          /\ UNCHANGED <<products, orders>>
     ELSE LET order == orders[o]
              r == InventoryLoop(products, order.items, 1, "add")
          IN
          IF ~canBeCancelled(order)
          THEN /\ resp' = Response("cancel", 400, "Cannot Cancel Order")
               /\ UNCHANGED <<products, orders>>
          ELSE /\ Len(order.statusHistory) < MaxHist
               /\ orders' = [orders EXCEPT ![o] = updateStatus(order, "cancelled")]
               /\ products' = r.prods
               /\ resp' = IF r.thrown
                          THEN Response("cancel", 500, "Cancellation Failed")
                          ELSE Response("cancel", 200, "")

\* POST /api/orders/:id/cancel (the owner, or an admin)
CancelOrder(actor, o) ==
  /\ UNCHANGED <<carts, pc, loc>>
  /\ IF o \notin 1..Len(orders) \/ (actor # Admin /\ orders[o].user # actor)
     THEN /\ resp' = Response("cancel", 404, "Order Not Found")
          /\ UNCHANGED <<products, orders>>
     ELSE LET order == orders[o]
              r == InventoryLoop(products, order.items, 1, "add")
          IN
          IF ~canBeCancelled(order)
          THEN /\ resp' = Response("cancel", 400, "Cannot Cancel Order")
               /\ UNCHANGED <<products, orders>>
          ELSE /\ Len(order.statusHistory) < MaxHist
               /\ orders' = [orders EXCEPT ![o] = updateStatus(order, "cancelled")]
               /\ products' = r.prods
               /\ resp' = IF r.thrown
                          THEN Response("cancel", 500, "Cancellation Failed")
                          ELSE Response("cancel", 200, "")

\* a refund route that does not compare the amount with the order's total
RefundOrderNoLimit(o, amount) ==
  /\ UNCHANGED <<products, carts, pc, loc>>
  /\ IF o \notin 1..Len(orders)
     THEN /\ resp' = Response("refund", 404, "Order Not Found")
          /\ UNCHANGED orders
     ELSE /\ Len(orders[o].statusHistory) < MaxHist
          /\ resp' = Response("refund", 200, "")
          /\ orders' = [orders EXCEPT ![o] = processRefund(orders[o], amount)]

\* a refund that is granted to returned orders only
RefundOrderFromReturned(o, amount) ==
  /\ UNCHANGED <<products, carts, pc, loc>>
  /\ IF o \notin 1..Len(orders)
     THEN /\ resp' = Response("refund", 404, "Order Not Found")
          /\ UNCHANGED orders
     ELSE IF amount > orders[o].total \/ orders[o].status # "returned"
     THEN /\ resp' = Response("refund", 400, "Invalid Refund Amount")
          /\ UNCHANGED orders
     ELSE /\ Len(orders[o].statusHistory) < MaxHist
          /\ resp' = Response("refund", 200, "")
          /\ orders' = [orders EXCEPT ![o] = processRefund(orders[o], amount)]

\* POST /api/orders/:id/refund (admin)
RefundOrder(o, amount) ==
  /\ UNCHANGED <<products, carts, pc, loc>>
  /\ IF o \notin 1..Len(orders)
     THEN /\ resp' = Response("refund", 404, "Order Not Found")
          /\ UNCHANGED orders
     ELSE IF amount > orders[o].total
     THEN /\ resp' = Response("refund", 400, "Invalid Refund Amount")
          /\ UNCHANGED orders
     ELSE /\ Len(orders[o].statusHistory) < MaxHist
          /\ resp' = Response("refund", 200, "")
          /\ orders' = [orders EXCEPT ![o] = processRefund(orders[o], amount)]

(***************************************************************************)
(* POST /api/checkout/complete as it runs among other requests: the        *)
(* handler is suspended at every await, so it is one step per database     *)
(* call.  loc[u] holds the handler's local variables, and the lines the    *)
(* user was answered to have bought.                                       *)
(***************************************************************************)
NoDoc == [exists |-> FALSE, isActive |-> FALSE, inStock |-> FALSE,
          totalStock |-> 0, soldCount |-> 0]

NoRequest == [i |-> 0, items |-> <<>>, doc |-> NoDoc, n |-> 0,
              bought |-> [p \in Products |-> 0]]

\* await Cart.findOne(...).populate('items.product')
CompleteLoadCart(u) ==
  /\ pc[u] = "idle"
  /\ loc[u].n < MaxCheckouts
  /\ UNCHANGED <<products, carts, orders>>
  /\ IF ~carts[u].exists \/ Len(carts[u].items) = 0
     THEN /\ resp' = Response("complete", 400, "Empty Cart")
          /\ UNCHANGED <<pc, loc>>
     ELSE /\ pc' = [pc EXCEPT ![u] = "find"]
          /\ loc' = [loc EXCEPT ![u].i = 1, ![u].items = carts[u].items]
          /\ UNCHANGED resp

\* await Product.findById(item.product._id)
CompleteFindProduct(u) ==
  /\ pc[u] = "find"
  /\ pc' = [pc EXCEPT ![u] = "save"]
  /\ loc' = [loc EXCEPT ![u].doc = products[loc[u].items[loc[u].i].product]]
  /\ UNCHANGED <<products, carts, orders, resp>>

\* await product.updateSoldCount(item.quantity): the loaded document is
\* changed and save() writes its soldCount and inStock
CompleteSaveProduct(u) ==
  LET item == loc[u].items[loc[u].i]
      saved == updateSoldCount(loc[u].doc, item.quantity)
  IN
  /\ pc[u] = "save"
  /\ products' = IF loc[u].doc.exists
                 THEN [products EXCEPT ![item.product].soldCount = saved.soldCount,
                                       ![item.product].inStock = saved.inStock]
                 ELSE products
  /\ pc' = [pc EXCEPT ![u] = IF loc[u].i < Len(loc[u].items) THEN "find" ELSE "clear"]
  /\ loc' = [loc EXCEPT ![u].i = loc[u].i + 1, ![u].doc = NoDoc]
  /\ UNCHANGED <<carts, orders, resp>>

\* await cart.clearCart(), then the success response
CompleteClearCart(u) ==
  /\ pc[u] = "clear"
  /\ carts' = [carts EXCEPT ![u] = clearCart(carts[u])]
  /\ resp' = Response("complete", 200, "")
  /\ pc' = [pc EXCEPT ![u] = "idle"]
  /\ loc' = [loc EXCEPT ![u] =
       [i |-> 0, items |-> <<>>, doc |-> NoDoc, n |-> loc[u].n + 1,
        bought |-> [p \in Products |->
           loc[u].bought[p] +
           SumQuantity(SelectSeq(loc[u].items, LAMBDA it : it.product = p))]]]
  /\ UNCHANGED <<products, orders>>


(***************************************************************************)
(* The two cancellations as they run among other requests: POST            *)
(* /api/orders/:id/cancel and PUT /api/orders/:id/status with status       *)
(* cancelled, one step per await.  pc[r] and loc[r] belong to the request  *)
(* slot r; both slots address the order Contended.  The inventory methods  *)
(* are single-document atomic updates, applied to the stored product.      *)
(***************************************************************************)
MaxCancels == 1

Contended == 1

CancelPcs == {"cancelSave", "cancelFind", "cancelRelease", "cancelAdd"}
StatusPcs == {"statusFind", "statusRelease", "statusAdd", "statusSave"}

\* where the inventory loop goes after line i: the next line, or what the
\* route does after the loop
AfterLine(r) ==
  IF loc[r].i < Len(loc[r].items)
  THEN IF pc[r] \in CancelPcs THEN "cancelFind" ELSE "statusFind"
  ELSE IF pc[r] \in CancelPcs THEN "idle" ELSE "statusSave"

\* the request is over and answered
Answer(r, op, code, err) ==
  /\ resp' = Response(op, code, err)
  /\ pc' = [pc EXCEPT ![r] = "idle"]
  /\ loc' = [loc EXCEPT ![r] = [NoRequest EXCEPT !.n = loc[r].n + 1,
                                                 !.bought = loc[r].bought]]

\* cancel route: await Order.findOne(query), and the canBeCancelled test
CancelLoadOrder(r) ==
  /\ pc[r] = "idle"
  /\ loc[r].n < MaxCancels
  /\ UNCHANGED <<products, carts, orders>>
  /\ IF Contended \notin 1..Len(orders)
     THEN Answer(r, "cancel", 404, "Order Not Found")
     ELSE IF ~canBeCancelled(orders[Contended])
     THEN Answer(r, "cancel", 400, "Cannot Cancel Order")
     ELSE /\ pc' = [pc EXCEPT ![r] = "cancelSave"]
          /\ loc' = [loc EXCEPT ![r].i = 1, ![r].items = orders[Contended].items]
          /\ UNCHANGED resp

\* cancel route: await order.updateStatus('cancelled', ...), whose save sets
\* the status and pushes the history entry
CancelSaveStatus(r) ==
  /\ pc[r] = "cancelSave"
  /\ Len(orders[Contended].statusHistory) < MaxHist
  /\ orders' = [orders EXCEPT ![Contended] = updateStatus(orders[Contended], "cancelled")]
  /\ pc' = [pc EXCEPT ![r] = "cancelFind"]
  /\ UNCHANGED <<products, carts, resp, loc>>

\* status route: await Order.findById(id), and the transition test
StatusLoadOrder(r) ==
  /\ pc[r] = "idle"
  /\ loc[r].n < MaxCancels
  /\ UNCHANGED <<products, carts, orders>>
  /\ IF Contended \notin 1..Len(orders)
     THEN Answer(r, "status", 404, "Order Not Found")
     ELSE IF "cancelled" \notin validTransitions(orders[Contended].status)
     THEN Answer(r, "status", 400, "Invalid Status Transition")
     ELSE /\ pc' = [pc EXCEPT ![r] = "statusFind"]
          /\ loc' = [loc EXCEPT ![r].i = 1, ![r].items = orders[Contended].items]
          /\ UNCHANGED resp

\* either route: await Product.findById(item.product); a missing product's
\* line is skipped
LineFindProduct(r) ==
  LET doc == products[loc[r].items[loc[r].i].product] IN
  /\ pc[r] \in {"cancelFind", "statusFind"}
  /\ UNCHANGED <<products, carts, orders>>
  /\ IF doc.exists
     THEN /\ pc' = [pc EXCEPT ![r] = IF pc[r] = "cancelFind" THEN "cancelRelease"
                                     ELSE "statusRelease"]
          /\ loc' = [loc EXCEPT ![r].doc = doc]
          /\ UNCHANGED resp
     ELSE IF AfterLine(r) = "idle"
     THEN Answer(r, "cancel", 200, "")
     ELSE /\ pc' = [pc EXCEPT ![r] = AfterLine(r)]
          /\ loc' = [loc EXCEPT ![r].i = loc[r].i + 1]
          /\ UNCHANGED resp

\* either route: await product.releaseReservedInventory(item.quantity)
LineRelease(r) ==
  LET item == loc[r].items[loc[r].i]
      released == releaseReservedInventory(products[item.product], item.quantity)
  IN
  /\ pc[r] \in {"cancelRelease", "statusRelease"}
  /\ UNCHANGED <<carts, orders>>
  /\ IF ~ProductValid(released)
     THEN /\ UNCHANGED products
          /\ IF pc[r] = "cancelRelease"
             THEN Answer(r, "cancel", 500, "Cancellation Failed")
             ELSE Answer(r, "status", 500, "Update Failed")
     ELSE /\ products' = [products EXCEPT ![item.product] = released]
          /\ pc' = [pc EXCEPT ![r] = IF pc[r] = "cancelRelease" THEN "cancelAdd"
                                     ELSE "statusAdd"]
          /\ UNCHANGED <<resp, loc>>

\* either route: await product.updateInventory(item.quantity, 'add'); the
\* cancel route answers after its last line
LineAdd(r) ==
  LET item == loc[r].items[loc[r].i]
      updated == updateInventory(products[item.product], item.quantity, "add")
  IN
  /\ pc[r] \in {"cancelAdd", "statusAdd"}
  /\ UNCHANGED <<carts, orders>>
  /\ products' = [products EXCEPT ![item.product] = updated]
  /\ IF AfterLine(r) = "idle"
     THEN Answer(r, "cancel", 200, "")
     ELSE /\ pc' = [pc EXCEPT ![r] = AfterLine(r)]
          /\ loc' = [loc EXCEPT ![r].i = loc[r].i + 1, ![r].doc = NoDoc]
          /\ UNCHANGED resp

\* status route: await order.updateStatus('cancelled', ...), then the
\* success response
StatusSaveStatus(r) ==
  /\ pc[r] = "statusSave"
  /\ Len(orders[Contended].statusHistory) < MaxHist
  /\ orders' = [orders EXCEPT ![Contended] = updateStatus(orders[Contended], "cancelled")]
  /\ Answer(r, "status", 200, "")
  /\ UNCHANGED <<products, carts>>

\* an await of a request in flight rejects (the database call fails): the
\* route's catch block answers 500 and nothing is undone
RequestFails(r) ==
  /\ pc[r] \in CancelPcs \cup StatusPcs
  /\ IF pc[r] \in CancelPcs
     THEN Answer(r, "cancel", 500, "Cancellation Failed")
     ELSE Answer(r, "status", 500, "Update Failed")
  /\ UNCHANGED <<products, carts, orders>>

(***************************************************************************)
(* Initial state: the seeded catalogue, no cart, no order, no request.     *)
(***************************************************************************)
Init ==
  /\ products = [p \in Products |->
       [exists |-> TRUE, isActive |-> TRUE, inStock |-> TRUE,
        totalStock |-> InitStockOf(p), soldCount |-> 0]]
  /\ carts = [u \in Users |-> NoCart]
  /\ orders = <<>>
  /\ resp = Response("none", 0, "")
  /\ pc = [u \in Users |-> "idle"]
  /\ loc = [u \in Users |-> NoRequest]

\* the cart of one user, while an admin edits stock and deletes products
CartUsers == {"u1"}

NextCart ==
  \/ \E u \in CartUsers, p \in Products, q \in 1..MaxQty, c \in Colours, s \in Sizes :
        AddToCart(u, p, q, c, s)
  \/ \E u \in CartUsers, i \in 1..Cardinality(Products), q \in 0..MaxQty :
        UpdateCartItem(u, i, q)
  \/ \E u \in CartUsers, i \in 1..Cardinality(Products) : RemoveCartItem(u, i)
  \/ \E u \in CartUsers : ClearCart(u)
  \/ \E p \in Products, t \in 0..MaxStock : AdminUpdateProduct(p, t)
  \/ \E p \in Products : AdminDeleteProduct(p)

SpecCart == Init /\ [][NextCart]_vars

\* two users filling their carts and checking out while an admin activates
\* and deactivates products, one whole request at a time
NextCheckout ==
  \/ \E u \in Users, p \in Products, q \in 1..MaxQty :
        AddToCart(u, p, q, colourOf(p), sizeOf(p))
  \/ \E u \in Users : Checkout(u)
  \/ \E u \in Users : CompleteCheckout(u)
  \/ \E p \in Products : AdminToggleActive(p)

SpecCheckout == Init /\ [][NextCheckout]_vars

\* the requests of POST /api/orders that the model issues
OrderRequests ==
  UNION {[1..n -> [product : Products, quantity : 1..MaxQty]] : n \in 1..MaxItems}

DeliveryOptions == {"standard", "express"}

\* the refund amounts tried on an order: nothing, all of it, too much
RefundAmounts(o) ==
  IF o \in 1..Len(orders) THEN {0, orders[o].total, orders[o].total + 1} ELSE {0}

\* orders of one customer, driven by an admin, one whole request at a time
NextOrder ==
  \/ \E items \in OrderRequests, d \in DeliveryOptions, saveOk \in BOOLEAN :
        Len(orders) < MaxOrders /\ CreateOrder("u1", items, d, saveOk, Len(orders) + 1)
  \/ \E o \in 1..MaxOrders, status \in Statuses : UpdateOrderStatus(o, status)
  \/ \E o \in 1..MaxOrders : UpdateOrderTracking(o)
  \/ \E actor \in Actors, o \in 1..MaxOrders : CancelOrder(actor, o)
  \/ \E o \in 1..MaxOrders : \E amount \in RefundAmounts(o) : RefundOrder(o, amount)

SpecOrder == Init /\ [][NextOrder]_vars

\* the status machine: orders of a fixed shape, created and then driven
\* through every request of the order interface
StatusRequests ==
  {<<[product |-> "p1", quantity |-> 1], [product |-> "p2", quantity |-> 1]>>}

NextStatus ==
  \/ \E items \in StatusRequests, saveOk \in BOOLEAN :
        Len(orders) < MaxOrders /\ CreateOrder("u1", items, "standard", saveOk, Len(orders) + 1)
  \/ \E o \in 1..MaxOrders, status \in Statuses : UpdateOrderStatus(o, status)
  \/ \E o \in 1..MaxOrders : UpdateOrderTracking(o)
  \/ \E actor \in Actors, o \in 1..MaxOrders : CancelOrder(actor, o)
  \/ \E o \in 1..MaxOrders : \E amount \in RefundAmounts(o) : RefundOrder(o, amount)

SpecStatus == Init /\ [][NextStatus]_vars

\* two users fill their carts and complete their checkouts concurrently
NextConc ==
  \/ \E u \in Users, p \in Products, q \in 1..MaxQty :
        pc[u] = "idle" /\ AddToCart(u, p, q, colourOf(p), sizeOf(p))
  \/ \E u \in Users : CompleteLoadCart(u)
  \/ \E u \in Users : CompleteFindProduct(u)
  \/ \E u \in Users : CompleteSaveProduct(u)
  \/ \E u \in Users : CompleteClearCart(u)

SpecConc == Init /\ [][NextConc]_vars

\* calculateTotals called on an order document
CalculateTotals(o) ==
  /\ o \in 1..Len(orders)
  /\ orders' = [orders EXCEPT ![o] = calculateTotals(orders[o])]
  /\ resp' = Response("calculateTotals", 0, "")
  /\ UNCHANGED <<products, carts, pc, loc>>

\* the inputs of calculateTotals: tax rates in ten-thousandths, shipping costs,
\* discounts (none, fixed, fixed above any total, percentage) and the totals
\* the document holds before the call
TaxRates == {0, OrderTaxRate}
ShippingCosts == {0, 1500}
Discounts == {[amount |-> 0, type |-> "fixed"], [amount |-> 1000, type |-> "fixed"],
              [amount |-> 10000000, type |-> "fixed"],
              [amount |-> 10, type |-> "percentage"]}
StoredTotals == {0, 50000}

\* one order document with any of these inputs and totals not yet calculated
InitTotals ==
  /\ products = [p \in Products |->
       [exists |-> TRUE, isActive |-> TRUE, inStock |-> TRUE,
        totalStock |-> InitStockOf(p), soldCount |-> 0]]
  /\ carts = [u \in Users |-> NoCart]
  /\ \E items \in OrderRequests, taxRate \in TaxRates, shippingCost \in ShippingCosts,
        discount \in Discounts, stored \in StoredTotals, present \in BOOLEAN :
       orders = <<[user |-> "u1", orderNumber |-> 0, items |-> OrderItems(items),
                   subtotal |-> stored, tax |-> 0, taxRate |-> taxRate,
                   shippingCost |-> shippingCost, discount |-> discount,
                   total |-> stored,
                   paymentInfo |-> [present |-> present, amount |-> stored],
                   status |-> "pending", statusHistory |-> <<>>,
                   tracking |-> FALSE, refund |-> -1]>>
  /\ resp = Response("none", 0, "")
  /\ pc = [u \in Users |-> "idle"]
  /\ loc = [u \in Users |-> NoRequest]

NextTotals == \E o \in 1..MaxOrders : CalculateTotals(o)

SpecTotals == InitTotals /\ [][NextTotals]_vars

\* order numbers: several orders of one line each, their numbers drawn from a
\* set small enough to collide; all but the last are driven through status
\* updates, tracking and full refunds
NumberRequests == {<<[product |-> "p1", quantity |-> 1]>>}

OrderNumbers == 1..(MaxOrders + 1)

\* the status updates these orders are asked for; tracking ships them
NumberStatuses == {"confirmed", "processing", "cancelled"}

NextNumber ==
  \/ \E items \in NumberRequests, n \in OrderNumbers :
        Len(orders) < MaxOrders + 1 /\ CreateOrder("u1", items, "standard", TRUE, n)
  \/ \E o \in 1..MaxOrders, status \in NumberStatuses : UpdateOrderStatus(o, status)
  \/ \E o \in 1..MaxOrders : UpdateOrderTracking(o)
  \/ \E o \in 1..MaxOrders : o <= Len(orders) /\ RefundOrder(o, orders[o].total)

SpecNumber == Init /\ [][NextNumber]_vars

\* ownership: an order of either user, read, invoiced and cancelled by every
\* actor while an admin moves it along
NextOwner ==
  \/ \E u \in Users, items \in NumberRequests \cup StatusRequests, saveOk \in BOOLEAN :
        Len(orders) < MaxOrders /\ CreateOrder(u, items, "standard", saveOk, Len(orders) + 1)
  \/ \E o \in 1..MaxOrders, status \in NumberStatuses : UpdateOrderStatus(o, status)
  \/ \E actor \in Actors, o \in 1..MaxOrders : GetOrder(actor, o)
  \/ \E actor \in Actors, o \in 1..MaxOrders : GetInvoice(actor, o)
  \/ \E actor \in Actors, o \in 1..MaxOrders : CancelOrder(actor, o)

SpecOwner == Init /\ [][NextOwner]_vars

\* persisted totals: orders with and without a shipping cost, confirmed,
\* tracked and refunded in full
PricedRequests ==
  {<<[product |-> "p2", quantity |-> 1]>>,
   <<[product |-> "p1", quantity |-> 1], [product |-> "p2", quantity |-> 1]>>}

NextPriced ==
  \/ \E items \in PricedRequests, d \in DeliveryOptions :
        Len(orders) < MaxOrders /\ CreateOrder("u1", items, d, TRUE, Len(orders) + 1)
  \/ \E o \in 1..MaxOrders : UpdateOrderStatus(o, "confirmed")
  \/ \E o \in 1..MaxOrders : UpdateOrderTracking(o)
  \/ \E o \in 1..MaxOrders : o <= Len(orders) /\ RefundOrder(o, orders[o].total)

SpecPriced == Init /\ [][NextPriced]_vars

\* orders whose products an admin deletes: an order of the fixed shape is
\* created, products are deleted, and the order is moved along and cancelled
NextGone ==
  \/ \E items \in StatusRequests :
        Len(orders) < MaxOrders /\ CreateOrder("u1", items, "standard", TRUE, Len(orders) + 1)
  \/ \E p \in Products : AdminDeleteProduct(p)
  \/ \E o \in 1..MaxOrders, status \in Statuses : UpdateOrderStatus(o, status)
  \/ \E actor \in Actors, o \in 1..MaxOrders : CancelOrder(actor, o)

SpecGone == Init /\ [][NextGone]_vars

\* reservations: order requests with scarce, repeated and plentiful lines,
\* while an admin deactivates and reactivates products
ReserveRequests ==
  {<<[product |-> "p1", quantity |-> 1]>>,
   <<[product |-> "p2", quantity |-> 2]>>,
   <<[product |-> "p1", quantity |-> 1], [product |-> "p2", quantity |-> 2]>>,
   <<[product |-> "p2", quantity |-> 1], [product |-> "p1", quantity |-> 1]>>,
   <<[product |-> "p1", quantity |-> 2], [product |-> "p1", quantity |-> 2]>>}

NextReserve ==
  \/ \E items \in ReserveRequests, d \in DeliveryOptions, saveOk \in BOOLEAN :
        Len(orders) < MaxOrders /\ CreateOrder("u1", items, d, saveOk, Len(orders) + 1)
  \/ \E p \in Products : AdminToggleActive(p)

SpecReserve == Init /\ [][NextReserve]_vars

\* orders that are created, moved along by status updates and given tracking
\* information
NextShip ==
  \/ \E items \in NumberRequests \cup StatusRequests, d \in DeliveryOptions :
        Len(orders) < MaxOrders /\ CreateOrder("u1", items, d, TRUE, Len(orders) + 1)
  \/ \E o \in 1..MaxOrders, status \in Statuses : UpdateOrderStatus(o, status)
  \/ \E o \in 1..MaxOrders : UpdateOrderTracking(o)

SpecShip == Init /\ [][NextShip]_vars

\* orders that are created, moved along by status updates and refunded
NextRefund ==
  \/ \E items \in NumberRequests \cup StatusRequests :
        Len(orders) < MaxOrders /\ CreateOrder("u1", items, "standard", TRUE, Len(orders) + 1)
  \/ \E o \in 1..MaxOrders, status \in Statuses : UpdateOrderStatus(o, status)
  \/ \E o \in 1..MaxOrders : \E amount \in RefundAmounts(o) : RefundOrder(o, amount)

SpecRefund == Init /\ [][NextRefund]_vars

\* two requests cancelling the same order, step by step, while orders are
\* placed
NextRace ==
  \/ \E items \in NumberRequests \cup StatusRequests :
        Len(orders) < MaxOrders + 1 /\ CreateOrder("u1", items, "standard", TRUE, Len(orders) + 1)
  \/ \E r \in Users : CancelLoadOrder(r)
  \/ \E r \in Users : CancelSaveStatus(r)
  \/ \E r \in Users : StatusLoadOrder(r)
  \/ \E r \in Users : LineFindProduct(r)
  \/ \E r \in Users : LineRelease(r)
  \/ \E r \in Users : LineAdd(r)
  \/ \E r \in Users : StatusSaveStatus(r)

SpecRace == Init /\ [][NextRace]_vars

\* cancellations that run one at a time, step by step, and may fail at any
\* await
Quiescent == \A r \in Users : pc[r] = "idle"

NextFail ==
  \/ \E items \in NumberRequests \cup StatusRequests :
        Len(orders) < MaxOrders /\ CreateOrder("u1", items, "standard", TRUE, Len(orders) + 1)
  \/ \E r \in Users : Quiescent /\ CancelLoadOrder(r)
  \/ \E r \in Users : CancelSaveStatus(r)
  \/ \E r \in Users : Quiescent /\ StatusLoadOrder(r)
  \/ \E r \in Users : LineFindProduct(r)
  \/ \E r \in Users : LineRelease(r)
  \/ \E r \in Users : LineAdd(r)
  \/ \E r \in Users : StatusSaveStatus(r)
  \/ \E r \in Users : RequestFails(r)

SpecFail == Init /\ [][NextFail]_vars

\* orders that an admin keeps moving along: a status update that the table
\* accepts for order o and that changes its status
Advance(o) ==
  /\ o \in 1..Len(orders)
  /\ \E status \in validTransitions(orders[o].status) : UpdateOrderStatus(o, status)
  /\ orders'[o].status # orders[o].status

NextLive ==
  \/ \E u \in Users, items \in NumberRequests \cup StatusRequests, d \in DeliveryOptions :
        Len(orders) < MaxOrders /\ CreateOrder(u, items, d, TRUE, Len(orders) + 1)
  \/ \E o \in 1..MaxOrders, status \in Statuses : UpdateOrderStatus(o, status)

\* no order that admits a status update is left waiting for one forever
SpecLive ==
  Init /\ [][NextLive]_vars /\ \A o \in 1..MaxOrders : WF_vars(Advance(o))

(***************************************************************************)
(* Properties                                                              *)
(***************************************************************************)

\* C1: for every product, 0 <= soldCount <= totalStock in every reachable
\* state, whatever sequence of reservations, releases, commits and restores
\* the routes performed.
C1_SoldWithinStock ==
  \A p \in Products :
    /\ 0 <= products[p].soldCount
    /\ products[p].soldCount <= products[p].totalStock

\* C2: when checkouts of the same product run concurrently, the quantities
\* the users were answered to have bought never add up to more than the
\* product's totalStock.
C2_NeverOversold ==
  \A p \in Products :
    loc["u1"].bought[p] + loc["u2"].bought[p] <= products[p].totalStock

\* the transition table as the specification states it
TransitionTable ==
  {<<"pending", "confirmed">>, <<"pending", "cancelled">>,
   <<"confirmed", "processing">>, <<"confirmed", "cancelled">>,
   <<"processing", "shipped">>, <<"processing", "cancelled">>,
   <<"shipped", "delivered">>, <<"shipped", "returned">>,
   <<"delivered", "returned">>, <<"returned", "refunded">>}

\* C3: a status update either is answered 400 Invalid Status Transition and
\* changes neither the order (status, history) nor any product, or its
\* requested status is in the table's set for the order's current status;
\* hence a status update succeeds only along the table and any other is
\* rejected without effect.
C3_OnlyTableTransitions ==
  [][resp'.op = "status" =>
       \/ /\ resp'.code = 400
          /\ resp'.err = "Invalid Status Transition"
          /\ orders' = orders
          /\ products' = products
       \/ \A o \in 1..Len(orders), status \in Statuses :
            \/ <<orders[o].status, status>> \in TransitionTable
            \/ ~UpdateOrderStatus(o, status)]_vars

\* C3 witness: a pending order was asked to become shipped and the request was
\* rejected
C3_Witness ==
  /\ resp.op = "status" /\ resp.code = 400 /\ resp.err = "Invalid Status Transition"
  /\ Len(orders) >= 1 /\ orders[1].status = "pending"

\* C4: once an order is cancelled or refunded, no request changes its status.
C4_TerminalStatusStays ==
  [][\A o \in 1..Len(orders) :
       orders[o].status \in {"cancelled", "refunded"}
         => orders'[o].status = orders[o].status]_vars

\* C5: the status history is append-only (every step keeps the old entries
\* and adds at most one), it starts with the status the order was created
\* with, every change of status adds exactly one entry, and in every
\* persisted state the last entry's status is the current status.
C5_HistoryAppendOnly ==
  /\ [](\A o \in 1..Len(orders) :
          LET h == orders[o].statusHistory IN
          /\ Len(h) >= 1
          /\ h[1].status = "pending"
          /\ h[Len(h)].status = orders[o].status)
  /\ [][\A o \in 1..Len(orders) :
          LET h == orders[o].statusHistory
              h2 == orders'[o].statusHistory
          IN
          /\ Len(h2) \in {Len(h), Len(h) + 1}
          /\ SubSeq(h2, 1, Len(h)) = h
          /\ orders'[o].status # orders[o].status => Len(h2) = Len(h) + 1]_vars

\* C5 witness: an order that went through status updates and a refund
C5_Witness ==
  /\ resp.op = "refund" /\ resp.code = 200
  /\ Len(orders) >= 1
  /\ Len(orders[1].statusHistory) >= 3
  /\ orders[1].status = "refunded"

\* C6: an order creation that does not succeed leaves every product's
\* counters as they were before the request.
C6_FailedCreateReleasesAll ==
  [][\A items \in OrderRequests, d \in DeliveryOptions, saveOk \in BOOLEAN :
       (CreateOrder("u1", items, d, saveOk, Len(orders) + 1) /\ resp'.code # 201)
         => products' = products]_vars

\* the lines of a cart whose quantity exceeds the product's available stock
OverStock(prods, items) ==
  {i \in 1..Len(items) :
     items[i].quantity > prods[items[i].product].totalStock
                         - prods[items[i].product].soldCount}

\* C7: every step of the checkout flow (summary and completion), run on a cart
\* with a line that exceeds the available stock, answers 400 Stock Issues,
\* lists every such line and leaves every soldCount unchanged.
C7_StockConflictRejected ==
  [][\A u \in Users :
       ((Checkout(u) \/ CompleteCheckout(u)) /\ OverStock(products, carts[u].items) # {})
         => /\ resp'.code = 400
            /\ resp'.err = "Stock Issues"
            /\ OverStock(products, carts[u].items) \subseteq resp'.details
            /\ \A p \in Products : products'[p].soldCount = products[p].soldCount]_vars

\* C8: a checkout completion that succeeds on a cart whose every line fits in
\* the available stock raises each product's soldCount by the quantity of its
\* line, persists an order whose total is subtotal + tax + shipping, and
\* leaves the cart empty with zero aggregates.
C8_CheckoutSuccessEffects ==
  [][\A u \in Users :
       (/\ CompleteCheckout(u)
        /\ resp'.code = 200
        /\ OverStock(products, carts[u].items) = {})
         => /\ \A p \in Products :
                 products'[p].soldCount = products[p].soldCount
                   + SumQuantity(SelectSeq(carts[u].items, LAMBDA it : it.product = p))
            /\ carts'[u].items = <<>>
            /\ carts'[u].totalItems = 0
            /\ carts'[u].totalAmount = 0
            /\ \E o \in (Len(orders) + 1)..Len(orders') :
                 /\ orders'[o].user = u
                 /\ orders'[o].total = SummaryTotal(carts[u].totalAmount)]_vars

\* C9: a checkout empties the cart only when a persisted order holds the
\* cart's lines.
C9_CartClearedAfterOrder ==
  [][\A u \in Users :
       (CompleteCheckout(u) /\ carts[u].items # <<>> /\ carts'[u].items = <<>>)
         => \E o \in 1..Len(orders') :
              /\ orders'[o].user = u
              /\ Len(orders'[o].items) = Len(carts[u].items)
              /\ \A i \in 1..Len(carts[u].items) :
                   /\ orders'[o].items[i].product = carts[u].items[i].product
                   /\ orders'[o].items[i].quantity = carts[u].items[i].quantity]_vars

\* C10: no two lines of a cart have the same product, colour and size; and a
\* successful add of quantity b of a product and variant that is already a
\* line with quantity a leaves the number of lines as it was and that line
\* with quantity a + b.
C10_CartLinesMerged ==
  /\ [](\A u \in Users : \A i, j \in 1..Len(carts[u].items) :
          (/\ carts[u].items[i].product = carts[u].items[j].product
           /\ carts[u].items[i].colour = carts[u].items[j].colour
           /\ carts[u].items[i].size = carts[u].items[j].size) => i = j)
  /\ [][(resp'.op = "add" /\ resp'.code = 200) =>
          \A u \in Users : \A i \in 1..Len(carts[u].items) :
            \A p \in Products, b \in 1..MaxQty, c \in Colours, z \in Sizes :
              (/\ carts[u].items[i].product = p
               /\ carts[u].items[i].colour = c
               /\ carts[u].items[i].size = z
               /\ AddToCart(u, p, b, c, z))
                => /\ Len(carts'[u].items) = Len(carts[u].items)
                   /\ carts'[u].items[i].quantity = carts[u].items[i].quantity + b]_vars

\* C10 witness: an add succeeded on a two-line cart and left a line larger
\* than any single request asks for, which only a merge produces
C10_Witness ==
  /\ resp.op = "add" /\ resp.code = 200
  /\ Len(carts["u1"].items) = 2
  /\ \E i \in 1..2 : carts["u1"].items[i].quantity > MaxQty

\* C11: in every persisted state of a cart, totalItems is the sum of the
\* quantities of its lines and totalAmount is the sum of price x quantity over
\* its lines, after any sequence of add, update, remove and clear requests.
C11_CartTotalsMatchLines ==
  \A u \in Users :
    /\ carts[u].totalItems = SumQuantity(carts[u].items)
    /\ carts[u].totalAmount = SumAmount(carts[u].items)

\* C11 witness: a quantity update succeeded on a two-line cart that holds
\* three units or more
C11_Witness ==
  /\ resp.op = "update" /\ resp.code = 200
  /\ Len(carts["u1"].items) = 2
  /\ carts["u1"].totalItems >= 3
  /\ carts["u1"].totalAmount > priceOf("p1") + priceOf("p2")

\* C12: for every persisted order, subtotal is the sum of price x quantity over
\* its line items, tax is subtotal x taxRate, and total is
\* max(0, subtotal + tax + shippingCost - discountAmount), the discount being
\* the fixed amount or the percentage of the subtotal.
C12_OrderTotalFormula ==
  \A o \in 1..Len(orders) :
    LET ord == orders[o]
        disc == IF ord.discount.type = "percentage"
                THEN (ord.subtotal * ord.discount.amount) \div 100
                ELSE ord.discount.amount
    IN /\ ord.subtotal = SumAmount(ord.items)
       /\ ord.tax = (ord.subtotal * ord.taxRate) \div 10000
       /\ ord.total = Max(0, ord.subtotal + ord.tax + ord.shippingCost - disc)

\* C12 witness: an express order of two lines was persisted and later refunded
C12_Witness ==
  /\ resp.op = "refund" /\ resp.code = 200
  /\ Len(orders) >= 1
  /\ Len(orders[1].items) = 2
  /\ orders[1].shippingCost = 1500
  /\ orders[1].total > orders[1].subtotal + orders[1].shippingCost

\* C13: calculateTotals called again on the order it has just been called on
\* yields the same subtotal, tax, total and paymentInfo.amount.
C13_CalculateTotalsIdempotent ==
  [][resp'.op = "calculateTotals" =>
       \A o \in 1..Len(orders) :
         CalculateTotals(o) =>
           LET again == calculateTotals(orders'[o]) IN
           /\ again.subtotal = orders'[o].subtotal
           /\ again.tax = orders'[o].tax
           /\ again.total = orders'[o].total
           /\ again.paymentInfo.amount = orders'[o].paymentInfo.amount]_vars

\* C13 witness: calculateTotals ran on an order with a percentage discount,
\* a tax and a payment record, whose stored total was different before
C13_Witness ==
  /\ resp.op = "calculateTotals"
  /\ Len(orders) = 1
  /\ orders[1].discount.type = "percentage"
  /\ orders[1].discount.amount > 0
  /\ orders[1].tax > 0
  /\ orders[1].paymentInfo.present
  /\ orders[1].paymentInfo.amount = orders[1].total
  /\ orders[1].total \notin StoredTotals

\* C14: a refund request whose amount is greater than the order's total is
\* answered 400 Invalid Refund Amount and leaves the order (its status, refund
\* record and status history) unchanged.
C14_RefundAboveTotalRejected ==
  [][resp'.op = "refund" =>
       \A o \in 1..Len(orders) :
         \A amount \in RefundAmounts(o) :
           (amount > orders[o].total /\ RefundOrder(o, amount))
             => /\ resp'.code = 400
                /\ resp'.err = "Invalid Refund Amount"
                /\ orders'[o].status = orders[o].status
                /\ orders'[o].refund = orders[o].refund
                /\ orders'[o].statusHistory = orders[o].statusHistory]_vars

\* C14 witness: a refund above the total of a confirmed order was rejected
C14_Witness ==
  /\ resp.op = "refund" /\ resp.code = 400 /\ resp.err = "Invalid Refund Amount"
  /\ Len(orders) >= 1
  /\ orders[1].status = "confirmed"
  /\ orders[1].refund = -1

\* the units of product p that an order holds
OrderedQuantity(order, p) ==
  SumQuantity(SelectSeq(order.items, LAMBDA it : it.product = p))

\* C15: a successful cancellation of an order that is pending, confirmed or
\* processing (never shipped, so nothing was committed) lowers each product's
\* soldCount by exactly the ordered quantity and leaves its totalStock as it
\* is, so that totalStock and availableStock are back at their values before
\* the order was created.
C15_CancelRestoresStock ==
  [][\A o \in 1..Len(orders) :
       (/\ orders[o].status \in {"pending", "confirmed", "processing"}
        /\ orders'[o].status = "cancelled"
        /\ resp'.code = 200)
         => \A p \in Products :
              /\ products'[p].soldCount =
                   products[p].soldCount - OrderedQuantity(orders[o], p)
              /\ products'[p].totalStock = products[p].totalStock]_vars

\* the quantity the cart's line of this product and variant would hold after
\* the add: the requested quantity, plus the line's if there is one
MergedQuantity(items, p, quantity, colour, size) ==
  LET idx == existingItemIndex(items, p, colour, size) IN
  IF idx > 0 THEN items[idx].quantity + quantity ELSE quantity

\* C16 as stated: every add whose requested or merged quantity exceeds the
\* product's availableStock fails with Insufficient Stock and leaves the cart
\* unchanged.
C16_ExcessAlwaysInsufficient ==
  [][resp'.op = "add" =>
       \A u \in Users, p \in Products, q \in 1..MaxQty, c \in Colours, z \in Sizes :
         (/\ products[p].exists
          /\ MergedQuantity(carts[u].items, p, q, c, z) > availableStock(products[p])
          /\ AddToCart(u, p, q, c, z))
           => /\ resp'.code = 400
              /\ resp'.err = "Insufficient Stock"
              /\ carts' = carts]_vars

\* C16: an add of an existing, active product in its own colour and size
\* fails with Insufficient Stock and leaves the cart unchanged whenever the
\* requested quantity, or the merged quantity, exceeds the product's
\* availableStock; and right after every successful add the line's quantity
\* is at most the product's availableStock.
C16_InsufficientStockRejected ==
  [][resp'.op = "add" =>
       /\ \A u \in Users, p \in Products, q \in 1..MaxQty, c \in Colours, z \in Sizes :
            (/\ products[p].exists /\ products[p].isActive
             /\ colourOf(p) = c /\ sizeOf(p) = z
             /\ MergedQuantity(carts[u].items, p, q, c, z) > availableStock(products[p])
             /\ AddToCart(u, p, q, c, z))
              => /\ resp'.code = 400
                 /\ resp'.err = "Insufficient Stock"
                 /\ carts' = carts
       /\ resp'.code = 200 =>
            \A u \in Users : \A i \in 1..Len(carts'[u].items) :
              (i > Len(carts[u].items) \/ carts'[u].items[i] # carts[u].items[i])
                => carts'[u].items[i].quantity
                     <= availableStock(products'[carts'[u].items[i].product])]_vars

\* C16 witness: an add was rejected for stock although every product is in
\* stock with room for the largest request, so the merged quantity was too
\* large
C16_Witness ==
  /\ resp.op = "add" /\ resp.code = 400 /\ resp.err = "Insufficient Stock"
  /\ \A p \in Products :
       /\ products[p].exists /\ products[p].inStock
       /\ availableStock(products[p]) >= MaxQty
  /\ Len(carts["u1"].items) >= 1

\* C17: a quantity update of a cart line to 0 removes that line and keeps the
\* others; an update to q > 0 of a line whose product exists, is in stock and
\* has availableStock >= q sets that line's quantity to q and changes nothing
\* else in the lines; any other update to q > 0 is rejected and leaves the
\* cart unchanged.
C17_UpdateQuantity ==
  [][resp'.op = "update" =>
       \A u \in Users : \A i \in 1..Len(carts[u].items), q \in 0..MaxQty :
         UpdateCartItem(u, i, q) =>
           LET items == carts[u].items
               items2 == carts'[u].items
               prod == products[items[i].product]
               ok == prod.exists /\ prod.inStock /\ prod.totalStock - prod.soldCount >= q
           IN
           /\ q = 0 =>
                /\ resp'.code = 200
                /\ Len(items2) = Len(items) - 1
                /\ \A j \in 1..Len(items2) :
                     items2[j] = IF j < i THEN items[j] ELSE items[j + 1]
           /\ (q > 0 /\ ok) =>
                /\ resp'.code = 200
                /\ Len(items2) = Len(items)
                /\ items2[i].quantity = q
                /\ \A j \in 1..Len(items) : j # i => items2[j] = items[j]
           /\ (q > 0 /\ ~ok) =>
                /\ resp'.code = 400
                /\ carts' = carts]_vars

\* C17 witness: a quantity update succeeded and left a saved cart without
\* lines, so it removed the cart's last line
C17_Witness ==
  /\ resp.op = "update" /\ resp.code = 200
  /\ carts["u1"].exists
  /\ carts["u1"].items = <<>>

\* C18: in every reachable state, each product's stored inStock flag equals
\* (totalStock - soldCount > 0), whatever mutation of totalStock or soldCount
\* came before, sales through checkout and admin edits of totalStock included.
C18_InStockMatchesCounters ==
  \A p \in Products :
    products[p].exists =>
      (products[p].inStock <=> (products[p].totalStock - products[p].soldCount > 0))

\* C19: every persisted order has an order number, assigned at its first
\* save; no later operation on the order (updateStatus, addTracking,
\* processRefund) changes it or removes the order; and no two persisted
\* orders share an order number.
C19_OrderNumberOnceAndUnique ==
  /\ [](\A i, j \in 1..Len(orders) :
          /\ orders[i].orderNumber # 0
          /\ orders[i].orderNumber = orders[j].orderNumber => i = j)
  /\ [][/\ Len(orders') >= Len(orders)
        /\ \A o \in 1..Len(orders) :
             orders'[o].orderNumber = orders[o].orderNumber]_vars

\* C19 witness: two persisted orders, the first one shipped with tracking and
\* then refunded
C19_Witness ==
  /\ Len(orders) = 2
  /\ orders[1].status = "refunded"
  /\ orders[1].tracking
  /\ Len(orders[1].statusHistory) >= 4

\* C20: a read, an invoice request or a cancellation by a user who is not an
\* admin, for an order that another user owns, is answered 404 Order Not Found
\* and changes neither the order nor any product; so such a user reads,
\* invoices or cancels only orders of their own.
C20_OnlyOwnOrders ==
  [][resp'.op \in {"getOrder", "getInvoice", "cancel"} =>
       \A actor \in Users : \A o \in 1..Len(orders) :
         (/\ orders[o].user # actor
          /\ (GetOrder(actor, o) \/ GetInvoice(actor, o) \/ CancelOrder(actor, o)))
           => /\ resp'.code = 404
              /\ resp'.err = "Order Not Found"
              /\ orders' = orders
              /\ products' = products]_vars

\* C20 witness: a cancellation of the one existing order, owned by u2 and
\* still confirmed, was answered not found
C20_Witness ==
  /\ resp.op = "cancel" /\ resp.code = 404
  /\ Len(orders) = MaxOrders
  /\ orders[1].user = "u2"
  /\ orders[1].status = "confirmed"

\* C21: a status update that moves an order to cancelled or to shipped and is
\* answered with success has applied the coupled inventory mutation to every
\* line: each line's product exists and its reservation (soldCount) went down
\* by the quantity the order holds of it.
C21_SuccessMeansEveryLineApplied ==
  [][(resp'.op = "status" /\ resp'.code = 200) =>
       \A o \in 1..Len(orders) :
         (/\ orders'[o].status # orders[o].status
          /\ orders'[o].status \in {"cancelled", "shipped"})
           => \A i \in 1..Len(orders[o].items) :
                LET p == orders[o].items[i].product IN
                /\ products[p].exists
                /\ products'[p].soldCount =
                     products[p].soldCount - OrderedQuantity(orders[o], p)]_vars

\* the products as line k of a request finds them: after the lines before it
\* were reserved
BeforeLine(items, k) == ReserveLoop(products, SubSeq(items, 1, k - 1), 1)

\* C22 as stated: a line that is reached, of an existing product whose
\* available stock is less than the requested quantity, fails the request with
\* Insufficient Stock; a line of an inactive product fails the request; in
\* both cases that line leaves the product's counters unchanged.
C22_ShortLineAlwaysInsufficient ==
  [][resp'.op = "createOrder" =>
       \A items \in ReserveRequests : \A k \in 1..Len(items) :
         LET before == BeforeLine(items, k)
             p == items[k].product
             prod == before.prods[p]
         IN
         (/\ before.err = "" /\ ~before.thrown /\ prod.exists
          /\ (~prod.isActive \/ prod.totalStock - prod.soldCount < items[k].quantity)
          /\ \E d \in DeliveryOptions, saveOk \in BOOLEAN :
               CreateOrder("u1", items, d, saveOk, Len(orders) + 1))
           => /\ resp'.code = 400
              /\ prod.totalStock - prod.soldCount < items[k].quantity
                   => resp'.err = "Insufficient Stock"
              /\ products'[p] = prod]_vars

\* C22: a line that is reached, of an existing and active product whose
\* available stock is less than the requested quantity, fails the request with
\* Insufficient Stock; a line of an inactive product fails the request with
\* Product Unavailable, whatever its stock; in both cases that line leaves the
\* product's counters unchanged.
C22_ReserveRejected ==
  [][resp'.op = "createOrder" =>
       \A items \in ReserveRequests : \A k \in 1..Len(items) :
         LET before == BeforeLine(items, k)
             p == items[k].product
             prod == before.prods[p]
         IN
         (/\ before.err = "" /\ ~before.thrown /\ prod.exists
          /\ (~prod.isActive \/ prod.totalStock - prod.soldCount < items[k].quantity)
          /\ \E d \in DeliveryOptions, saveOk \in BOOLEAN :
               CreateOrder("u1", items, d, saveOk, Len(orders) + 1))
           => /\ resp'.code = 400
              /\ resp'.err = IF prod.isActive THEN "Insufficient Stock"
                             ELSE "Product Unavailable"
              /\ products'[p] = prod]_vars

\* C22 witness: a request was rejected for stock while its first line's product
\* keeps the reservation that line made, so the second line was the short one
C22_Witness ==
  /\ resp.op = "createOrder" /\ resp.code = 400 /\ resp.err = "Insufficient Stock"
  /\ orders = <<>>
  /\ products["p1"].soldCount > 0
  /\ \A p \in Products : products[p].isActive

C24_ReturnRestoresStock ==
  [][(resp'.op = "status" /\ resp'.code = 200) =>
       \A o \in 1..Len(orders) :
         (orders[o].status \in {"shipped", "delivered"} /\ orders'[o].status = "returned")
           => \A p \in Products :
                products'[p].totalStock =
                  products[p].totalStock + OrderedQuantity(orders[o], p)]_vars

\* C25: a refund of an amount that does not exceed the order's total is
\* answered 200 whatever the order's status: the order becomes refunded, the
\* refund is recorded with the amount, and the status history grows by exactly
\* one entry, of status refunded.
C25_RefundFromAnyStatus ==
  [][resp'.op = "refund" =>
       \A o \in 1..Len(orders) : \A amount \in RefundAmounts(o) :
         (RefundOrder(o, amount) /\ amount <= orders[o].total)
           => /\ resp'.code = 200
              /\ orders'[o].status = "refunded"
              /\ orders'[o].refund = amount
              /\ orders'[o].statusHistory =
                   Append(orders[o].statusHistory, [status |-> "refunded"])]_vars

\* C25 witness: a cancelled order was refunded in full
C25_Witness ==
  /\ resp.op = "refund" /\ resp.code = 200
  /\ Len(orders) = 1
  /\ orders[1].status = "refunded"
  /\ orders[1].refund = orders[1].total
  /\ Len(orders[1].statusHistory) = 3
  /\ orders[1].statusHistory[2].status = "cancelled"
  /\ orders[1].statusHistory[3].status = "refunded"

\* C26: whichever request moves an order into shipped, that step lowers, for
\* each product, soldCount (the reservation) and totalStock by the quantity
\* the order holds of it.
C26_EveryShipmentCommits ==
  [][\A o \in 1..Len(orders) :
       (orders[o].status # "shipped" /\ orders'[o].status = "shipped")
         => \A p \in Products :
              /\ products'[p].soldCount =
                   products[p].soldCount - OrderedQuantity(orders[o], p)
              /\ products'[p].totalStock =
                   products[p].totalStock - OrderedQuantity(orders[o], p)]_vars

\* C27: the cancel request of the order's owner or of an admin is answered
\* 200 exactly when the order is pending, confirmed or processing, the
\* statuses from which the status update accepts cancelled.
C27_CancelAgreesWithTable ==
  [][resp'.op = "cancel" =>
       \A actor \in Actors, o \in 1..Len(orders) :
         (CancelOrder(actor, o) /\ (actor = Admin \/ orders[o].user = actor))
           => (resp'.code = 200 <=>
                 "cancelled" \in validTransitions(orders[o].status))]_vars

\* C28: when the requests that cancel an order have all ended, each product's
\* totalStock has been raised by the quantity the order holds of it at most
\* once, however the requests' steps were interleaved.
C28_ReleasedAtMostOnce ==
  ((\A r \in Users : pc[r] = "idle") /\ Contended \in 1..Len(orders)) =>
    \A p \in Products :
      products[p].totalStock <= InitStockOf(p) + OrderedQuantity(orders[Contended], p)

\* the quantity of product p that the orders not cancelled hold
RECURSIVE HeldQuantity(_, _)
HeldQuantity(ords, p) ==
  IF ords = <<>> THEN 0
  ELSE (IF Head(ords).status = "cancelled" THEN 0 ELSE OrderedQuantity(Head(ords), p))
       + HeldQuantity(Tail(ords), p)

\* C29: when no request is in flight, an order is cancelled exactly when the
\* reservations of all its lines are released: each product's reservation
\* counter is the quantity held by the orders that are not cancelled, also
\* after a request that failed midway.
C29_StatusMatchesInventory ==
  Quiescent => \A p \in Products : products[p].soldCount = HeldQuantity(orders, p)

\* the statuses that admit no status update
Terminal == {"cancelled", "refunded"}

\* the statuses reachable from those of S in at most n status updates
RECURSIVE ReachableIn(_, _)
ReachableIn(S, n) ==
  IF n = 0 THEN S
  ELSE ReachableIn(S \cup UNION {validTransitions(s) : s \in S}, n - 1)

====
